---- MODULE Spec2Model ----
(***************************************************************************)
(* scrape_advanced.py: fetch one page through `lynx -dump`, scan the text  *)
(* with four regular expressions, print the matches as indented JSON.      *)
(*                                                                         *)
(* Text is a sequence of one-character strings.  A Python dict is a        *)
(* sequence of <<key, value>> pairs in insertion order, keys unique.       *)
(* The character repertoire is ASCII: with str patterns \w, \d and \s also *)
(* match non-ASCII letters, digits and spaces, which are not modelled.     *)
(***************************************************************************)
EXTENDS Integers, Sequences, FiniteSets, TLC

VARIABLES
    argv,        \* sys.argv: <<program name, arguments...>>
    pc,          \* position of main: "start", "fetch", "extract", "report", "exited"
    url,         \* main's local url
    content,     \* main's local content: what scrape_url returned
    data,        \* main's local data: what extract_data returned
    stdout,      \* every character written to standard output so far
    exitStatus,  \* the process's exit status, -1 while it runs
    uncaught,    \* the exception that left main, "" if none
    spawns,      \* number of attempts to spawn the external process
    outcome,     \* what the last subprocess.run call did (history)
    stages,      \* the pipeline stages performed so far, in order (history)
    exArgs,      \* extract_data harness: <<content, patterns>> of the last call
    exResult,    \* extract_data harness: what the last call returned
    remArgs,     \* extract_data harness: arguments of a remembered earlier call
    remResult,   \* extract_data harness: what the remembered call returned
    exOther      \* extract_data harness: a call with other arguments came since

mainVars == <<argv, pc, url, content, data, stdout, exitStatus, uncaught,
              spawns, outcome, stages>>
exVars == <<exArgs, exResult, remArgs, remResult, exOther>>
vars == <<mainVars, exVars>>

----------------------------------------------------------------------------
(* Bounds of the model. *)

\* Texts the renderer can print: at most MaxFrags fragments, concatenated.
MaxFrags == 3

----------------------------------------------------------------------------
(* Character classes of Python's re module (ASCII part). *)

Digit == {"0", "1", "2", "3", "4", "5", "6", "7", "8", "9"}

Letter ==
    {"a", "b", "c", "d", "e", "f", "g", "h", "i", "j", "k", "l", "m",
     "n", "o", "p", "q", "r", "s", "t", "u", "v", "w", "x", "y", "z",
     "A", "B", "C", "D", "E", "F", "G", "H", "I", "J", "K", "L", "M",
     "N", "O", "P", "Q", "R", "S", "T", "U", "V", "W", "X", "Y", "Z"}

\* \w
Word == Letter \cup Digit \cup {"_"}

\* \s
Space == {" ", "\t", "\n", "\r", "\f"}

\* [\w\.-]
WordDotHyphen == Word \cup {".", "-"}

----------------------------------------------------------------------------
(* Compiled patterns: a sequence of items.  An item is a character class   *)
(* repeated lo..hi times, greedily (inf: no upper limit), or an optional   *)
(* non-capturing group (?:...)? holding a sequence of items.               *)

Rep(cls, lo, hi) == [kind |-> "rep", cls |-> cls, lo |-> lo, hi |-> hi, inf |-> FALSE]
Plus(cls) == [kind |-> "rep", cls |-> cls, lo |-> 1, hi |-> 0, inf |-> TRUE]
Star(cls) == [kind |-> "rep", cls |-> cls, lo |-> 0, hi |-> 0, inf |-> TRUE]
Lit(c) == Rep({c}, 1, 1)
Opt(sub) == [kind |-> "opt", sub |-> sub]

\* The pattern strings of main's table (raw strings in the source).
EmailsPattern == "[\\w\\.-]+@[\\w\\.-]+\\.\\w+"
PricesPattern == "\\$\\d+(?:\\.\\d{2})?"
DatesPattern == "\\d{1,2}/\\d{1,2}/\\d{4}"
PhonesPattern == "\\(\\d{3}\\)\\s*\\d{3}-\\d{4}"

\* re's compilation of a pattern string.
Compile(pattern) ==
    CASE pattern = EmailsPattern ->
           <<Plus(WordDotHyphen), Lit("@"), Plus(WordDotHyphen), Lit("."), Plus(Word)>>
      [] pattern = PricesPattern ->
           <<Lit("$"), Plus(Digit), Opt(<<Lit("."), Rep(Digit, 2, 2)>>)>>
      [] pattern = DatesPattern ->
           <<Rep(Digit, 1, 2), Lit("/"), Rep(Digit, 1, 2), Lit("/"), Rep(Digit, 4, 4)>>
      [] pattern = PhonesPattern ->
           <<Lit("("), Rep(Digit, 3, 3), Lit(")"), Star(Space),
             Rep(Digit, 3, 3), Lit("-"), Rep(Digit, 4, 4)>>

\* How many characters of cls follow from position pos, at most limit
\* (limit < 0: no limit).
RECURSIVE RunLength(_, _, _, _)
RunLength(cls, text, pos, limit) ==
    IF limit = 0 \/ pos > Len(text) \/ text[pos] \notin cls
    THEN 0
    ELSE 1 + RunLength(cls, text, pos + 1, limit - 1)

\* The backtracking matcher: the position after the match of items that
\* starts at pos, 0 if there is none.  A repetition takes as many characters
\* as it can and gives them back one at a time until the rest matches; an
\* optional group is tried before it is skipped.
RECURSIVE MatchEnd(_, _, _)
RECURSIVE TryCounts(_, _, _, _, _)
TryCounts(it, rest, text, pos, n) ==
    IF n < it.lo
    THEN 0
    ELSE LET r == MatchEnd(rest, text, pos + n)
         IN  IF r # 0 THEN r ELSE TryCounts(it, rest, text, pos, n - 1)

MatchEnd(items, text, pos) ==
    IF items = <<>>
    THEN pos
    ELSE LET it == Head(items)
             rest == Tail(items)
         IN  IF it.kind = "opt"
             THEN LET r == MatchEnd(it.sub \o rest, text, pos)
                  IN  IF r # 0 THEN r ELSE MatchEnd(rest, text, pos)
             ELSE TryCounts(it, rest, text, pos,
                            RunLength(it.cls, text, pos,
                                      IF it.inf THEN 0 - 1 ELSE it.hi))

\* Faulty variant: the scan goes on one character after the start of the match.
ResumeAfterStart(s, e) == s + 1

\* Where the scan goes on after a match that started at s and ended before e.
ResumeAt(s, e) == e

\* re.findall without capture groups: scan from pos, take the first position
\* where the pattern matches, keep the matched substring, go on after the
\* match.  Every pattern of Compile consumes at least two characters, so no
\* match is empty.  re.MULTILINE changes ^ and $ only, which no pattern has.
RECURSIVE FindAllFrom(_, _, _)
FindAllFrom(items, text, pos) ==
    IF pos > Len(text)
    THEN <<>>
    ELSE LET e == MatchEnd(items, text, pos)
         IN  IF e = 0
             THEN FindAllFrom(items, text, pos + 1)
             ELSE <<SubSeq(text, pos, e - 1)>>
                      \o FindAllFrom(items, text, ResumeAt(pos, e))

findall(pattern, text) == FindAllFrom(Compile(pattern), text, 1)

----------------------------------------------------------------------------
(* Python dicts. *)

Keys(d) == {d[i][1] : i \in 1..Len(d)}

KeySeq(d) == [i \in 1..Len(d) |-> d[i][1]]

HasKey(d, k) == \E i \in 1..Len(d) : d[i][1] = k

Get(d, k) == d[CHOOSE i \in 1..Len(d) : d[i][1] = k][2]

\* d[k] = v: an existing key keeps its place, a new key goes last.
DictSet(d, k, v) ==
    IF HasKey(d, k)
    THEN [i \in 1..Len(d) |-> IF d[i][1] = k THEN <<k, v>> ELSE d[i]]
    ELSE Append(d, <<k, v>>)

----------------------------------------------------------------------------
(* extract_data *)

\* Faulty variant: results is a dict kept from call to call.
StaleResults == exResult

\* results = {}
NewResults == <<>>

\* Faulty variant: a key is set only when there are matches.
ExtractStepSkippingEmpty(results, key, pattern, text) ==
    IF findall(pattern, text) = <<>>
    THEN results
    ELSE DictSet(results, key, findall(pattern, text))

\* The body of the for loop, for one (key, pattern) of patterns.items().
ExtractStep(results, key, pattern, text) ==
    DictSet(results, key, findall(pattern, text))

RECURSIVE ExtractLoop(_, _, _)
ExtractLoop(results, items, text) ==
    IF items = <<>>
    THEN results
    ELSE ExtractLoop(ExtractStep(results, Head(items)[1], Head(items)[2], text),
                     Tail(items), text)

extract_data(text, patterns) == ExtractLoop(NewResults, patterns, text)

\* The field names of main's table; a key is text like any other string.
EmailsKey == <<"e", "m", "a", "i", "l", "s">>
PricesKey == <<"p", "r", "i", "c", "e", "s">>
DatesKey == <<"d", "a", "t", "e", "s">>
PhonesKey == <<"p", "h", "o", "n", "e", "s">>

\* main's patterns table, in its declared order.
DefaultPatterns ==
    << <<EmailsKey, EmailsPattern>>,
       <<PricesKey, PricesPattern>>,
       <<DatesKey, DatesPattern>>,
       <<PhonesKey, PhonesPattern>> >>

----------------------------------------------------------------------------
(* json.dumps(data, indent=2) and print *)

\* indent=2
Indent == 2

\* Faulty variant: no character is escaped.
JsonEscapeNothing(c) == <<c>>

\* The JSON escape of one character (ensure_ascii; ASCII repertoire).
JsonEscape(c) ==
    CASE c = "\"" -> <<"\\", "\"">>
      [] c = "\\" -> <<"\\", "\\">>
      [] c = "\n" -> <<"\\", "n">>
      [] c = "\r" -> <<"\\", "r">>
      [] c = "\t" -> <<"\\", "t">>
      [] c = "\f" -> <<"\\", "f">>
      [] OTHER -> <<c>>

RECURSIVE JsonEscapeAll(_)
JsonEscapeAll(s) ==
    IF s = <<>> THEN <<>> ELSE JsonEscape(Head(s)) \o JsonEscapeAll(Tail(s))

JsonString(s) == <<"\"">> \o JsonEscapeAll(s) \o <<"\"">>

Spaces(n) == [i \in 1..n |-> " "]

\* A line break followed by the indentation of nesting depth level.
NewlineIndent(level) == <<"\n">> \o Spaces(Indent * level)

\* The items of a container at depth level, one per line, "," between them.
RECURSIVE JoinItems(_, _)
JoinItems(items, level) ==
    IF Len(items) = 1
    THEN Head(items)
    ELSE Head(items) \o <<",">> \o NewlineIndent(level) \o JoinItems(Tail(items), level)

JsonList(list, level) ==
    IF list = <<>>
    THEN <<"[", "]">>
    ELSE <<"[">> \o NewlineIndent(level + 1)
             \o JoinItems([i \in 1..Len(list) |-> JsonString(list[i])], level + 1)
             \o NewlineIndent(level) \o <<"]">>

JsonDumps(d) ==
    IF d = <<>>
    THEN <<"{", "}">>
    ELSE <<"{">> \o NewlineIndent(1)
             \o JoinItems([i \in 1..Len(d) |->
                              JsonString(d[i][1]) \o <<":", " ">>
                                  \o JsonList(d[i][2], 1)], 1)
             \o NewlineIndent(0) \o <<"}">>

\* print(x): x and a line break
PrintLine(x) == x \o <<"\n">>

----------------------------------------------------------------------------
(* scrape_url *)

UsageMessage ==
    <<"U", "s", "a", "g", "e", ":", " ", "p", "y", "t", "h", "o", "n", "3",
      " ", "s", "c", "r", "a", "p", "e", "_", "a", "d", "v", "a", "n", "c",
      "e", "d", ".", "p", "y", " ", "<", "u", "r", "l", ">">>

\* The exception classes subprocess.run raises here, each with its base classes.
Mro(exc) ==
    CASE exc = "FileNotFoundError" -> {"FileNotFoundError", "OSError", "Exception", "BaseException"}
      [] exc = "PermissionError" -> {"PermissionError", "OSError", "Exception", "BaseException"}
      [] exc = "UnicodeDecodeError" ->
           {"UnicodeDecodeError", "UnicodeError", "ValueError", "Exception", "BaseException"}
      [] exc = "IndexError" -> {"IndexError", "LookupError", "Exception", "BaseException"}

\* Faulty variant: except OSError
CaughtOSErrorOnly(exc) == "OSError" \in Mro(exc)

\* except Exception
Caught(exc) == "Exception" \in Mro(exc)

\* Faulty variant: the message leaves the URL out.
DiagnosticWithoutUrl(u, msg) ==
    <<"E", "r", "r", "o", "r", ":", " ">> \o msg

\* f"Error scraping {url}: {e}"
Diagnostic(u, msg) ==
    <<"E", "r", "r", "o", "r", " ", "s", "c", "r", "a", "p", "i", "n", "g",
      " ">>
        \o u \o <<":", " ">> \o msg

\* What subprocess.run(cmd, capture_output=True, text=True) can do: raise, or
\* return a CompletedProcess with the captured output and the exit status
\* (no check=True: a non-zero status raises nothing).
Raised(exc, msg) == [kind |-> "raise", exc |-> exc, msg |-> msg, rc |-> 0 - 1, out |-> <<>>]
Completed(rc, out) == [kind |-> "exit", exc |-> "", msg |-> <<>>, rc |-> rc, out |-> out]

\* Faulty variant: the handler ends the process instead of returning "".
scrape_url_escalating(u, o) ==
    IF o.kind = "exit"
    THEN [returned |-> o.out, printed |-> <<>>, raised |-> "", spawned |-> 1]
    ELSE [returned |-> <<>>, printed |-> PrintLine(Diagnostic(u, o.msg)),
          raised |-> "SystemExit", spawned |-> 1]

\* Faulty variant: a failed invocation is tried a second time.
scrape_url_retrying(u, o) ==
    IF o.kind = "exit"
    THEN [returned |-> o.out, printed |-> <<>>, raised |-> "", spawned |-> 1]
    ELSE [returned |-> <<>>, printed |-> PrintLine(Diagnostic(u, o.msg)),
          raised |-> "", spawned |-> 2]

\* The call scrape_url(u) when subprocess.run does o: the value returned,
\* the characters printed, the exception that leaves the call ("" if none),
\* the number of subprocess.run calls made.
scrape_url(u, o) ==
    IF o.kind = "exit"
    THEN [returned |-> o.out, printed |-> <<>>, raised |-> "", spawned |-> 1]
    ELSE IF Caught(o.exc)
         THEN [returned |-> <<>>, printed |-> PrintLine(Diagnostic(u, o.msg)),
               raised |-> "", spawned |-> 1]
         ELSE [returned |-> <<>>, printed |-> <<>>, raised |-> o.exc, spawned |-> 1]

----------------------------------------------------------------------------
(* Inputs *)

\* The pieces renderer output is put together from.
Fragments ==
    { <<"$", "5">>, <<"1", "2">>, <<".">>, <<"\n">>,
      <<"a", "@", "b", ".", "c", "o", "m">>,
      <<"3", "/", "4", "/", "2", "0", "2", "4">>,
      <<"(", "5", "5", "5", ")">>,
      <<"1", "2", "3", "-", "4", "5", "6", "7">> }

RECURSIVE TextsUpTo(_)
TextsUpTo(n) ==
    IF n = 0
    THEN {<<>>}
    ELSE LET S == TextsUpTo(n - 1)
         IN  S \cup {s \o f : s \in S, f \in Fragments}

\* The page texts of the documented scenarios.
ContactText ==
    <<"C", "o", "n", "t", "a", "c", "t", ":", " ", "a", "@", "b", ".", "c",
      "o", "m", " ", "o", "r", " ", "x", ".", "y", "@", "z", ".", "o", "r",
      "g">>
TotalText ==
    <<"T", "o", "t", "a", "l", ":", " ", "$", "1", "9", ".", "9", "9", " ",
      "a", "n", "d", " ", "$", "5">>
MeetingText ==
    <<"M", "e", "e", "t", "i", "n", "g", " ", "o", "n", " ", "3", "/", "4",
      "/", "2", "0", "2", "4", " ", "a", "n", "d", " ", "1", "2", "/", "3",
      "1", "/", "1", "9", "9", "9">>
CallText ==
    <<"C", "a", "l", "l", " ", "(", "5", "5", "5", ")", " ", "1", "2", "3",
      "-", "4", "5", "6", "7", " ", "n", "o", "w">>
Scenarios == {ContactText, TotalText, MeetingText, CallText}

RendererTexts == TextsUpTo(MaxFrags) \cup Scenarios

GoodUrl == <<"h", "t", "t", "p", ":", "/", "/", "x">>
MalformedUrl == <<":", ":">>

ProgramName == "scrape_advanced.py"

\* sys.argv: the program name and zero, one or two arguments.
ArgLists ==
    {<<ProgramName>>, <<ProgramName, GoodUrl>>, <<ProgramName, MalformedUrl, GoodUrl>>}

NoSuchFile ==
    <<"[", "E", "r", "r", "n", "o", " ", "2", "]", " ", "N", "o", " ", "s",
      "u", "c", "h", " ", "f", "i", "l", "e", " ", "o", "r", " ", "d", "i",
      "r", "e", "c", "t", "o", "r", "y", ":", " ", "'", "l", "y", "n", "x",
      "'">>
PermissionDenied ==
    <<"[", "E", "r", "r", "n", "o", " ", "1", "3", "]", " ", "P", "e", "r",
      "m", "i", "s", "s", "i", "o", "n", " ", "d", "e", "n", "i", "e", "d",
      ":", " ", "'", "l", "y", "n", "x", "'">>
CannotDecode ==
    <<"'", "u", "t", "f", "-", "8", "'", " ", "c", "o", "d", "e", "c", " ",
      "c", "a", "n", "'", "t", " ", "d", "e", "c", "o", "d", "e", " ", "b",
      "y", "t", "e", " ", "0", "x", "f", "f", " ", "i", "n", " ", "p", "o",
      "s", "i", "t", "i", "o", "n", " ", "0", ":", " ", "i", "n", "v", "a",
      "l", "i", "d", " ", "s", "t", "a", "r", "t", " ", "b", "y", "t", "e">>

RaisingOutcomes ==
    { Raised("FileNotFoundError", NoSuchFile),
      Raised("PermissionError", PermissionDenied),
      Raised("UnicodeDecodeError", CannotDecode) }

\* What a renderer that ends with a failure exit status had printed.
FailureTexts == TextsUpTo(MaxFrags - 2)

Outcomes ==
    RaisingOutcomes
        \cup {Completed(0, out) : out \in RendererTexts}
        \cup {Completed(1, out) : out \in FailureTexts}

MoneyKey == <<"m", "o", "n", "e", "y">>
WhenKey == <<"w", "h", "e", "n">>

\* Pattern tables extract_data is called with, beside main's.
PricesOnly == << <<PricesKey, PricesPattern>> >>
PhonesThenEmails == << <<PhonesKey, PhonesPattern>>, <<EmailsKey, EmailsPattern>> >>
Renamed == << <<MoneyKey, PricesPattern>>, <<WhenKey, DatesPattern>> >>
PatternSets == {DefaultPatterns, <<>>, PricesOnly, PhonesThenEmails, Renamed}

\* Texts the harness calls extract_data on.
ExTexts == {<<>>} \cup Fragments \cup Scenarios

----------------------------------------------------------------------------
(* main *)

Running == 0 - 1

\* Faulty variant: len(sys.argv) < 1
ArgMissingBelowOne(a) == Len(a) < 1

\* len(sys.argv) < 2
ArgMissing(a) == Len(a) < 2

\* Lines 31-35: the argument check; sys.exit(1) after the usage message,
\* else url = sys.argv[1] (IndexError if there is no such element).
CheckArgs ==
    /\ pc = "start"
    /\ IF ArgMissing(argv)
       THEN /\ stdout' = stdout \o PrintLine(UsageMessage)
            /\ exitStatus' = 1
            /\ pc' = "exited"
            /\ UNCHANGED <<url, uncaught>>
       ELSE IF Len(argv) < 2
            THEN /\ uncaught' = "IndexError"
                 /\ exitStatus' = 1
                 /\ pc' = "exited"
                 /\ UNCHANGED <<url, stdout>>
            ELSE /\ url' = argv[2]
                 /\ pc' = "fetch"
                 /\ UNCHANGED <<stdout, exitStatus, uncaught>>
    /\ UNCHANGED <<argv, content, data, spawns, outcome, stages>>
    /\ UNCHANGED exVars

\* Line 46: content = scrape_url(url); subprocess.run does o.
ScrapeUrl(o) ==
    /\ pc = "fetch"
    /\ LET r == scrape_url(url, o)
       IN  /\ spawns' = spawns + r.spawned
           /\ outcome' = o
           /\ stdout' = stdout \o r.printed
           /\ stages' = Append(stages, <<"fetch", url, r.returned>>)
           /\ IF r.raised = ""
              THEN /\ content' = r.returned
                   /\ pc' = "extract"
                   /\ UNCHANGED <<exitStatus, uncaught>>
              ELSE /\ uncaught' = r.raised
                   /\ exitStatus' = 1
                   /\ pc' = "exited"
                   /\ UNCHANGED content
    /\ UNCHANGED <<argv, url, data>>
    /\ UNCHANGED exVars

\* Line 49: data = extract_data(content, patterns)
ExtractData ==
    /\ pc = "extract"
    /\ data' = extract_data(content, DefaultPatterns)
    /\ stages' = Append(stages, <<"extract", content, data'>>)
    /\ pc' = "report"
    /\ UNCHANGED <<argv, url, content, stdout, exitStatus, uncaught, spawns, outcome>>
    /\ UNCHANGED exVars

\* Line 52: print(json.dumps(data, indent=2)); main returns, exit status 0.
Report ==
    /\ pc = "report"
    /\ stdout' = stdout \o PrintLine(JsonDumps(data))
    /\ stages' = Append(stages, <<"report", data, PrintLine(JsonDumps(data))>>)
    /\ exitStatus' = 0
    /\ pc' = "exited"
    /\ UNCHANGED <<argv, url, content, data, uncaught, spawns, outcome>>
    /\ UNCHANGED exVars

NoOutcome == Completed(0, <<>>)

Init ==
    /\ argv \in ArgLists
    /\ pc = "start"
    /\ url = <<>>
    /\ content = <<>>
    /\ data = <<>>
    /\ stdout = <<>>
    /\ exitStatus = Running
    /\ uncaught = ""
    /\ spawns = 0
    /\ outcome = NoOutcome
    /\ stages = <<>>
    /\ exArgs = <<>>
    /\ exResult = <<>>
    /\ remArgs = <<>>
    /\ remResult = <<>>
    /\ exOther = FALSE

Next ==
    \/ CheckArgs
    \/ \E o \in Outcomes : ScrapeUrl(o)
    \/ ExtractData
    \/ Report

Spec == Init /\ [][Next]_vars

----------------------------------------------------------------------------
(* The extract_data harness: calls of extract_data on any text and pattern *)
(* table, one after another in one process.                                *)

\* A call extract_data(text, patterns) returns.
ExtractCall(text, patterns) ==
    /\ exArgs' = <<text, patterns>>
    /\ exResult' = extract_data(text, patterns)
    /\ exOther' = (exOther \/ (remArgs # <<>> /\ <<text, patterns>> # remArgs))
    /\ UNCHANGED <<remArgs, remResult>>
    /\ UNCHANGED mainVars

\* The caller keeps the last call's arguments and result for later.
Remember ==
    /\ exArgs # <<>>
    /\ remArgs' = exArgs
    /\ remResult' = exResult
    /\ exOther' = FALSE
    /\ UNCHANGED <<exArgs, exResult>>
    /\ UNCHANGED mainVars

InitExtract ==
    /\ argv = <<ProgramName>>
    /\ pc = "harness"
    /\ url = <<>>
    /\ content = <<>>
    /\ data = <<>>
    /\ stdout = <<>>
    /\ exitStatus = Running
    /\ uncaught = ""
    /\ spawns = 0
    /\ outcome = NoOutcome
    /\ stages = <<>>
    /\ exArgs = <<>>
    /\ exResult = <<>>
    /\ remArgs = <<>>
    /\ remResult = <<>>
    /\ exOther = FALSE

NextExtract ==
    \/ \E text \in ExTexts, patterns \in PatternSets : ExtractCall(text, patterns)
    \/ Remember

SpecExtract == InitExtract /\ [][NextExtract]_vars

----------------------------------------------------------------------------
(* A JSON reader, for the properties that read the output back: an object  *)
(* whose values are arrays of strings, with any white space between the    *)
(* tokens.  A result is [ok, val, next]: next is the position after what   *)
(* was read.                                                               *)

JsonWs == {" ", "\n", "\r", "\t"}

\* Characters a JSON string may not hold unescaped.
JsonControl == {"\n", "\r", "\t", "\f"}

At(s, i) == IF i \in 1..Len(s) THEN s[i] ELSE ""

ParseFail == [ok |-> FALSE, val |-> <<>>, next |-> 0]

ParseOk(v, n) == [ok |-> TRUE, val |-> v, next |-> n]

RECURSIVE SkipWs(_, _)
SkipWs(s, i) == IF At(s, i) \in JsonWs THEN SkipWs(s, i + 1) ELSE i

JsonEscapes == {"\"", "\\", "/", "n", "r", "t", "f"}

Unescape(c) ==
    CASE c = "n" -> "\n"
      [] c = "r" -> "\r"
      [] c = "t" -> "\t"
      [] c = "f" -> "\f"
      [] OTHER -> c

RECURSIVE ParseChars(_, _, _)
ParseChars(s, i, acc) ==
    IF i > Len(s) \/ s[i] \in JsonControl
    THEN ParseFail
    ELSE IF s[i] = "\""
         THEN ParseOk(acc, i + 1)
         ELSE IF s[i] = "\\"
              THEN IF At(s, i + 1) \in JsonEscapes
                   THEN ParseChars(s, i + 2, Append(acc, Unescape(s[i + 1])))
                   ELSE ParseFail
              ELSE ParseChars(s, i + 1, Append(acc, s[i]))

ParseString(s, i) == IF At(s, i) = "\"" THEN ParseChars(s, i + 1, <<>>) ELSE ParseFail

RECURSIVE ParseItems(_, _, _)
ParseItems(s, i, acc) ==
    LET r == ParseString(s, i)
        j == SkipWs(s, r.next)
    IN  IF ~r.ok
        THEN ParseFail
        ELSE IF At(s, j) = "]"
             THEN ParseOk(Append(acc, r.val), j + 1)
             ELSE IF At(s, j) = ","
                  THEN ParseItems(s, SkipWs(s, j + 1), Append(acc, r.val))
                  ELSE ParseFail

ParseArray(s, i) ==
    IF At(s, i) # "["
    THEN ParseFail
    ELSE LET j == SkipWs(s, i + 1)
         IN  IF At(s, j) = "]" THEN ParseOk(<<>>, j + 1) ELSE ParseItems(s, j, <<>>)

RECURSIVE ParseMembers(_, _, _)
ParseMembers(s, i, acc) ==
    LET k == ParseString(s, i)
        c == SkipWs(s, k.next)
        v == ParseArray(s, SkipWs(s, c + 1))
        j == SkipWs(s, v.next)
    IN  IF ~k.ok \/ At(s, c) # ":" \/ ~v.ok
        THEN ParseFail
        ELSE IF At(s, j) = "}"
             THEN ParseOk(Append(acc, <<k.val, v.val>>), j + 1)
             ELSE IF At(s, j) = ","
                  THEN ParseMembers(s, SkipWs(s, j + 1), Append(acc, <<k.val, v.val>>))
                  ELSE ParseFail

ParseObject(s, i) ==
    IF At(s, i) # "{"
    THEN ParseFail
    ELSE LET j == SkipWs(s, i + 1)
         IN  IF At(s, j) = "}" THEN ParseOk(<<>>, j + 1) ELSE ParseMembers(s, j, <<>>)

\* s is one JSON document and nothing else: its members, in order.
ParseDocument(s) ==
    LET r == ParseObject(s, SkipWs(s, 1))
    IN  IF r.ok /\ SkipWs(s, r.next) = Len(s) + 1 THEN r ELSE ParseFail

IsJsonDocument(s) == ParseDocument(s).ok

----------------------------------------------------------------------------
(* The languages of the four patterns, said directly: which strings w each *)
(* pattern describes.                                                      *)

AllIn(w, from, to, cls) == \A j \in from..to : w[j] \in cls

IsPrice(w) ==
    /\ Len(w) >= 2
    /\ w[1] = "$"
    /\ \E n \in 1..(Len(w) - 1) :
          /\ AllIn(w, 2, n + 1, Digit)
          /\ \/ Len(w) = n + 1
             \/ /\ Len(w) = n + 4
                /\ w[n + 2] = "."
                /\ AllIn(w, n + 3, n + 4, Digit)

IsEmail(w) ==
    \E a \in 2..Len(w), d \in 4..(Len(w) - 1) :
        /\ a + 1 < d
        /\ w[a] = "@"
        /\ w[d] = "."
        /\ AllIn(w, 1, a - 1, WordDotHyphen)
        /\ AllIn(w, a + 1, d - 1, WordDotHyphen)
        /\ AllIn(w, d + 1, Len(w), Word)

IsDate(w) ==
    \E m \in 1..2, d \in 1..2 :
        /\ Len(w) = m + d + 6
        /\ AllIn(w, 1, m, Digit)
        /\ w[m + 1] = "/"
        /\ AllIn(w, m + 2, m + d + 1, Digit)
        /\ w[m + d + 2] = "/"
        /\ AllIn(w, m + d + 3, m + d + 6, Digit)

IsPhone(w) ==
    /\ Len(w) >= 13
    /\ LET k == Len(w) - 13
       IN  /\ w[1] = "("
           /\ AllIn(w, 2, 4, Digit)
           /\ w[5] = ")"
           /\ AllIn(w, 6, 5 + k, Space)
           /\ AllIn(w, 6 + k, 8 + k, Digit)
           /\ w[9 + k] = "-"
           /\ AllIn(w, 10 + k, 13 + k, Digit)

InLanguage(pattern, w) ==
    CASE pattern = EmailsPattern -> IsEmail(w)
      [] pattern = PricesPattern -> IsPrice(w)
      [] pattern = DatesPattern -> IsDate(w)
      [] pattern = PhonesPattern -> IsPhone(w)

\* The ends e of the substrings of text that start at s and are in the language.
MatchEnds(pattern, text, s) ==
    {e \in s..Len(text) : InLanguage(pattern, SubSeq(text, s, e))}

Max(S) == CHOOSE x \in S : \A y \in S : y <= x

\* The matches of a left-to-right scan: at the first position from pos where
\* a string of the language starts take the longest one, go on after its end.
RECURSIVE ScanFrom(_, _, _)
ScanFrom(pattern, text, pos) ==
    IF pos > Len(text)
    THEN <<>>
    ELSE LET ends == MatchEnds(pattern, text, pos)
         IN  IF ends = {}
             THEN ScanFrom(pattern, text, pos + 1)
             ELSE <<SubSeq(text, pos, Max(ends))>> \o ScanFrom(pattern, text, Max(ends) + 1)

NoMatchAnywhere(pattern, text) ==
    \A s \in 1..Len(text) : MatchEnds(pattern, text, s) = {}

IsPrefix(p, s) == Len(p) <= Len(s) /\ SubSeq(s, 1, Len(p)) = p

Contains(s, sub) ==
    \E i \in 0..(Len(s) - Len(sub)) : SubSeq(s, i + 1, i + Len(sub)) = sub

StageNames == [i \in 1..Len(stages) |-> stages[i][1]]

Pipeline == <<"fetch", "extract", "report">>

----------------------------------------------------------------------------
(* Properties *)

Exited == pc = "exited"

HasUrlArg == Len(argv) >= 2

Fetched == spawns > 0

\* The line scrape_url printed, if it printed one: stdout up to the first
\* line break (main prints nothing before the fetch).
FirstLine ==
    IF \E i \in 1..Len(stdout) : stdout[i] = "\n"
    THEN SubSeq(stdout, 1, (CHOOSE i \in 1..Len(stdout) :
                               stdout[i] = "\n" /\ \A j \in 1..(i - 1) : stdout[j] # "\n") - 1)
    ELSE stdout

\* C1: when a run has ended, standard output holds either exactly the usage
\* message (exit status 1) or exactly one JSON document (exit status 0),
\* whatever the arguments and whatever the renderer did.
C1_StdoutUsageOrJson ==
    Exited =>
        \/ stdout = PrintLine(UsageMessage) /\ exitStatus = 1
        \/ IsJsonDocument(stdout) /\ exitStatus = 0

\* C2: the result of extract_data has the keys of its pattern table, each
\* once and no other, and a pattern that matches nowhere in the text has the
\* empty list.
C2_KeySetExact ==
    exArgs # <<>> =>
        LET text == exArgs[1]
            patterns == exArgs[2]
        IN  /\ Keys(exResult) = Keys(patterns)
            /\ Len(exResult) = Len(patterns)
            /\ Cardinality(Keys(exResult)) = Len(exResult)
            /\ \A i \in 1..Len(patterns) :
                  /\ HasKey(exResult, patterns[i][1])
                  /\ NoMatchAnywhere(patterns[i][2], text)
                        => Get(exResult, patterns[i][1]) = <<>>

\* A call on the empty text with main's table: four keys, four empty lists.
C2_Witness ==
    /\ exArgs = <<<<>>, DefaultPatterns>>
    /\ Len(exResult) = 4
    /\ \A i \in 1..Len(exResult) : exResult[i][2] = <<>>

\* C3: once scrape_url has been called, whatever the URL and whatever
\* subprocess.run did, no exception has left it: the call returned a string,
\* which main holds as content.
C3_ScrapeNeverRaises ==
    Fetched =>
        /\ uncaught = ""
        /\ pc \in {"extract", "report", "exited"}
        /\ stages[1] = <<"fetch", url, content>>
        /\ content \in Seq({content[i] : i \in 1..Len(content)})

\* The renderer's output could not be decoded, for a malformed URL, and
\* scrape_url returned.
C3_Witness ==
    /\ pc = "extract"
    /\ url = MalformedUrl
    /\ outcome.kind = "raise"
    /\ outcome.exc = "UnicodeDecodeError"
    /\ content = <<>>

\* C4: a run without an argument prints the usage message and ends with exit
\* status 1, and at no point of it is there a fetch, an extract or a report.
C4_NoArgUsageOnly ==
    ~HasUrlArg =>
        /\ spawns = 0
        /\ stages = <<>>
        /\ \/ pc = "start" /\ stdout = <<>> /\ exitStatus = Running
           \/ /\ Exited
              /\ exitStatus = 1
              /\ stdout = PrintLine(UsageMessage)
              /\ uncaught = ""

C4_Witness == ~HasUrlArg /\ Exited /\ stdout = PrintLine(UsageMessage)

\* The step main is at after the stages performed so far; each step's action
\* is enabled by pc alone.
NextStage ==
    CASE stages = <<>> -> IF url = <<>> THEN "start" ELSE "fetch"
      [] Len(stages) = 1 -> "extract"
      [] Len(stages) = 2 -> "report"
      [] OTHER -> "exited"

\* C5: a run with a URL argument does fetch, extract, report, once each and
\* in that order, extract on what fetch returned and report on what extract
\* returned, and ends with exit status 0, also when the fetch failed or
\* returned no text; before the end main is at the step that comes next.
C5_PipelineInOrder ==
    HasUrlArg =>
        /\ IsPrefix(StageNames, Pipeline)
        /\ ~Exited => exitStatus = Running /\ pc = NextStage
        /\ Exited =>
              /\ StageNames = Pipeline
              /\ exitStatus = 0
              /\ uncaught = ""
              /\ stages[1][2] = argv[2]
              /\ stages[2][2] = stages[1][3]
              /\ stages[3][2] = stages[2][3]

\* The binary was missing, and the run went through all three stages.
C5_Witness ==
    /\ HasUrlArg
    /\ Exited
    /\ outcome.kind = "raise"
    /\ exitStatus = 0
    /\ StageNames = Pipeline

\* C6: for every text and every pattern of main's table, the list
\* extract_data returns is the left-to-right scan of the text for the
\* pattern's language: matches in order of position, none overlapping, the
\* scan going on at the end of the match before, a substring that occurs
\* twice listed twice; each price is "$", digits and at most "." and two
\* digits, and "Total: $19.99 and $5" gives "$19.99" and "$5".
C6_MatchLists ==
    (pc = "report") =>
        /\ \A i \in 1..Len(DefaultPatterns) :
              Get(data, DefaultPatterns[i][1])
                  = ScanFrom(DefaultPatterns[i][2], content, 1)
        /\ \A j \in 1..Len(Get(data, PricesKey)) : IsPrice(Get(data, PricesKey)[j])
        /\ content = TotalText =>
              Get(data, PricesKey)
                  = << <<"$", "1", "9", ".", "9", "9">>, <<"$", "5">> >>

\* A text with the same price twice: it is listed twice.
C6_Witness ==
    /\ pc = "report"
    /\ content = <<"$", "5", "\n", "$", "5">>
    /\ Get(data, PricesKey) = << <<"$", "5">>, <<"$", "5">> >>

\* C7: what report printed, read back as JSON, is the mapping report was
\* given, key for key and list for list, with the keys in the order emails,
\* prices, dates, phones.
C7_JsonRoundTrip ==
    (Exited /\ exitStatus = 0) =>
        LET given == stages[3][2]
            read == ParseDocument(stages[3][3])
        IN  /\ read.ok
            /\ read.val = given
            /\ given = data
            /\ KeySeq(read.val) = <<EmailsKey, PricesKey, DatesKey, PhonesKey>>

\* A phone number with a line break in it was reported.
C7_Witness ==
    /\ Exited
    /\ exitStatus = 0
    /\ Get(data, PhonesKey)
           = << <<"(", "5", "5", "5", ")", "\n", "1", "2", "3", "-", "4", "5", "6", "7">> >>

FetchFailed == Fetched /\ (outcome.kind = "raise" \/ outcome.rc # 0)

DiagnosticPrinted ==
    /\ IsPrefix(<<"E", "r", "r", "o", "r", " ", "s", "c", "r", "a", "p", "i", "n", "g">>,
                FirstLine)
    /\ Contains(FirstLine, url)
    /\ Contains(FirstLine, outcome.msg)

\* C9 as stated: after any fetch failure, a failure exit status included, a
\* diagnostic naming the URL and the error was printed and the text handed
\* to extract is empty.
C9_AnyFailureDiagnosedAndEmpty ==
    FetchFailed => DiagnosticPrinted /\ content = <<>>

\* C9 amended: when subprocess.run raised, a diagnostic naming the URL and
\* the error was printed and the text handed to extract is empty; when the
\* process ran to its end, with whatever exit status, nothing was printed by
\* scrape_url and the text is the captured output.
C9_RaisedDiagnosedAndEmpty ==
    (Fetched /\ pc = "extract") =>
        /\ outcome.kind = "raise" =>
              /\ DiagnosticPrinted
              /\ stdout = PrintLine(FirstLine)
              /\ content = <<>>
        /\ outcome.kind = "exit" =>
              /\ stdout = <<>>
              /\ content = outcome.out

C9_Witness ==
    /\ pc = "extract"
    /\ outcome.kind = "raise"
    /\ outcome.exc = "FileNotFoundError"
    /\ url = GoodUrl
    /\ DiagnosticPrinted

\* C10: a run makes at most one attempt to spawn the external process: none
\* without a URL argument, exactly one once scrape_url has been called, and
\* none is added afterwards.
C10_OneSpawnPerRun ==
    /\ spawns \in {0, 1}
    /\ ~HasUrlArg => spawns = 0
    /\ (HasUrlArg /\ pc \in {"start", "fetch"}) => spawns = 0
    /\ (HasUrlArg /\ pc \in {"extract", "report", "exited"}) => spawns = 1

\* A run whose only attempt failed has ended.
C10_Witness ==
    /\ Exited
    /\ HasUrlArg
    /\ outcome.kind = "raise"
    /\ spawns = 1

====
